---- MODULE Spec2Model ----
(***************************************************************************)
(* Timeline construction and bundle adjustment orchestration of            *)
(* sat-bundleadjust (src/bundle_adjust/ba_timeseries.py, loader.py).       *)
(*                                                                         *)
(* Three specifications share the module:                                  *)
(*   SpecCluster  group_files_by_date, one action per loop iteration       *)
(*   SpecPairs    load_pairs_from_same_date_and_next_dates                 *)
(*   Spec         the Scene object: construction, the three strategies,    *)
(*                the camera model files on disk                           *)
(* Acquisition times are whole seconds (the code parses them with          *)
(* strptime at a resolution of one second).                                *)
(***************************************************************************)
EXTENDS Integers, Sequences, FiniteSets, TLC

VARIABLES
    \* ---- group_files_by_date (SpecCluster)
    datetimes,            \* argument: acquisition time of each input image
    sorted_indices,       \* np.argsort(datetimes)
    im_idx,               \* loop position in the sorted images (1-based)
    d,                    \* insertion-ordered dict: date id -> image positions
    dates_already_seen,   \* representative time of each date, in creation order
    g_timeline,           \* the returned timeline
    gpc,                  \* "loop" | "done"
    \* ---- load_pairs_from_same_date_and_next_dates (SpecPairs)
    p_n_images,           \* argument timeline: n_images of each entry
    timeline_indices,     \* argument: the selected timeline indices (0-based)
    next_dates,           \* argument: how many next dates to pair with
    intra_date,           \* argument: whether to pair within a date
    k_pos,                \* loop position k in timeline_indices (0-based)
    init_pairs,           \* the list of pairs built so far
    cams_so_far,          \* images of the dates before position k
    dates_left,           \* dates of the selection not yet visited
    ppc,                  \* "loop" | "done"
    \* ---- the environment of a Scene (Spec)
    img_dt,               \* acquisition time of each image <i>.JP2 of geotiff_dir
    tif_ids,              \* the images geotiff_dir also holds as <i>.tif
    args,                 \* the scene configuration read from json
    \* ---- the disk
    dst_dir,              \* whether output_dir exists
    rpcs_init,            \* <output_dir>/rpcs_init/<stem>.rpc: model or NoFile
    ba_dir,               \* whether <output_dir>/<ba_method> exists
    rpcs_adj,             \* <output_dir>/<ba_method>/rpcs_adj/<stem>.rpc_adj
    \* ---- the Scene object
    pc,                   \* position of the process
    timeline,             \* self.timeline
    selected_timeline_indices,
    fix_ref_cam,          \* self.fix_ref_cam
    n_adj,                \* self.n_adj
    images_adj,           \* self.images_adj
    images_new,           \* self.images_new
    ba_data,              \* self.ba_data["images"], empty before the first set
    FT_predefined_pairs,  \* self.tracks_config["FT_predefined_pairs"]
    idx,                  \* position in selected_timeline_indices (sequential)
    \* ---- history
    calls,                \* the calls of the optimization core, oldest first
    io,                   \* file system operations of the current process
    run,                  \* number of the current process (1 = first run)
    stops                 \* where each earlier process stopped, oldest first

clusterVars == <<datetimes, sorted_indices, im_idx, d, dates_already_seen,
                 g_timeline, gpc>>

pairVars == <<p_n_images, timeline_indices, next_dates, intra_date, k_pos,
              init_pairs, cams_so_far, dates_left, ppc>>

envVars == <<img_dt, tif_ids, args>>

diskVars == <<dst_dir, rpcs_init, ba_dir, rpcs_adj>>

inputVars == <<n_adj, images_adj, images_new, ba_data>>

sceneVars == <<envVars, diskVars, inputVars, pc, timeline, selected_timeline_indices,
               fix_ref_cam, FT_predefined_pairs, idx, calls, io, run, stops>>

vars == <<clusterVars, pairVars, sceneVars>>

-----------------------------------------------------------------------------
(* Bounds of the model *)

\* most images handed to group_files_by_date
MaxImages == 3
\* acquisition times are drawn from slots of SlotSecs seconds, 0..MaxSlot
MaxSlot == 7
\* entries of the timeline handed to the pair generator
MaxDates == 3
\* most images of one timeline entry there
MaxSize == 3
\* largest next_dates there
MaxLook == 2
\* images <i>.JP2 of a scene's geotiff_dir
MaxSceneImages == 3
\* largest n_dates of a scene configuration
MaxPrevDates == 2
\* processes started on one output directory
MaxRuns == 2

-----------------------------------------------------------------------------
(* Generic helpers *)

Abs(x) == IF x < 0 THEN -x ELSE x

Min2(a, b) == IF a < b THEN a ELSE b

Range(s) == {s[i] : i \in 1..Len(s)}

\* the sequences over S of length at most n
SeqsUpTo(S, n) == UNION {[1..k -> S] : k \in 0..n}

-----------------------------------------------------------------------------
(* group_files_by_date *)

\* seconds in a minute: dt_diff_in_mins divides total_seconds() by 60.0
SecsPerMin == 60

\* margin = 30, in minutes
margin == 30

\* width of a time slot of the input grid, in seconds (5 minutes)
SlotSecs == 5 * SecsPerMin

\* seconds in a day, for the %Y%m%d part of a date id
DaySecs == 86400

\* the input grid: every slot, and one second after it
TimeGrid == {s * SlotSecs + j : s \in 0..MaxSlot, j \in 0..1}

\* the difference without abs(): a date seen earlier is always "close"
MutDiffNoAbs(d1, d2) == d1 - d2

\* abs((d1 - d2).total_seconds()), in seconds
dt_diff_in_secs(d1, d2) == Abs(d1 - d2)

\* the comparison with <= in place of <
MutWithinMarginInclusive(d1, d2) == dt_diff_in_secs(d1, d2) <= margin * SecsPerMin

\* dt_diff_in_mins(x, current_dt) < margin, on exact seconds:
\* secs / 60.0 < 30 iff secs < 30 * 60
WithinMargin(d1, d2) == dt_diff_in_secs(d1, d2) < margin * SecsPerMin

\* datetime.strftime("%Y%m%d_%H%M%S"): the day, then the time of day
Strftime(t) == <<t \div DaySecs, t % DaySecs>>

\* no sorting: the images in the order of the input
MutArgNoSort(dts) == {[i \in 1..Len(dts) |-> i]}

\* the results np.argsort may give: ascending, ties in any order
ArgSorts(dts) ==
    {p \in [1..Len(dts) -> 1..Len(dts)] :
        /\ \A i, j \in 1..Len(dts) : i # j => p[i] # p[j]
        /\ \A i, j \in 1..Len(dts) : i < j => dts[p[i]] <= dts[p[j]]}

\* np.array(xs)[sorted_indices].tolist()
Reorder(xs, p) == [i \in 1..Len(p) |-> xs[p[i]]]

\* np.argmin: the first position of the smallest value
ArgMin(xs) ==
    CHOOSE i \in 1..Len(xs) :
        /\ \A j \in 1..Len(xs) : xs[i] <= xs[j]
        /\ \A j \in 1..(i - 1) : xs[j] > xs[i]

\* position of key k in the dict, 0 when absent
DictPos(dict, k) ==
    IF \E i \in 1..Len(dict) : dict[i].key = k
    THEN CHOOSE i \in 1..Len(dict) : dict[i].key = k
    ELSE 0

\* d[k] = [x] in place of d[k].append(x)
MutDictAppendReplaces(dict, k, x) ==
    [i \in 1..Len(dict) |->
        IF i = DictPos(dict, k) THEN [key |-> k, val |-> <<x>>] ELSE dict[i]]

\* d[k].append(x); the key is present whenever the code does this
DictAppend(dict, k, x) ==
    [i \in 1..Len(dict) |->
        IF i = DictPos(dict, k)
        THEN [key |-> k, val |-> Append(dict[i].val, x)]
        ELSE dict[i]]

\* d[k] = [x]: a new key goes last, an existing key keeps its place
DictSet(dict, k, x) ==
    IF DictPos(dict, k) = 0
    THEN Append(dict, [key |-> k, val |-> <<x>>])
    ELSE [i \in 1..Len(dict) |->
            IF i = DictPos(dict, k) THEN [key |-> k, val |-> <<x>>] ELSE dict[i]]

\* the image compared with the first representative only
MutJoinPosFirstSeen(seen, current_dt) ==
    IF Len(seen) > 0 /\ WithinMargin(seen[1], current_dt) THEN 1 ELSE 0

\* the representative the image at time current_dt joins, 0 for a new date
JoinPos(seen, current_dt) ==
    LET diffs == [x \in 1..Len(seen) |-> dt_diff_in_secs(seen[x], current_dt)]
    IN  IF Len(seen) > 0 /\ WithinMargin(seen[ArgMin(diffs)], current_dt)
        THEN ArgMin(diffs)
        ELSE 0

\* one iteration of the loop "for im_idx, fname in enumerate(sorted_fnames)"
LoopBody(st, sorted_datetimes, i) ==
    LET current_dt == sorted_datetimes[i]
        min_pos == JoinPos(st.seen, current_dt)
    IN  IF min_pos # 0
        THEN [dict |-> DictAppend(st.dict, Strftime(st.seen[min_pos]), i),
              seen |-> st.seen]
        ELSE [dict |-> DictSet(st.dict, Strftime(current_dt), i),
              seen |-> Append(st.seen, current_dt)]

\* the timeline built from the dict, one entry per key in insertion order
BuildTimeline(dict, sorted_datetimes, sorted_fnames) ==
    [k \in 1..Len(dict) |->
        [datetime |-> sorted_datetimes[dict[k].val[1]],
         id |-> dict[k].key,
         fnames |-> [j \in 1..Len(dict[k].val) |-> sorted_fnames[dict[k].val[j]]],
         n_images |-> Len(dict[k].val),
         adjusted |-> FALSE,
         image_weights |-> <<>>]]

RECURSIVE LoopFrom(_, _, _)
LoopFrom(st, sorted_datetimes, i) ==
    IF i > Len(sorted_datetimes)
    THEN st
    ELSE LoopFrom(LoopBody(st, sorted_datetimes, i), sorted_datetimes, i + 1)

\* group_files_by_date as a function of its arguments and the argsort result p
GroupFilesByDate(dts, fnames, p) ==
    LET sorted_datetimes == Reorder(dts, p)
        sorted_fnames == Reorder(fnames, p)
        st == LoopFrom([dict |-> <<>>, seen |-> <<>>], sorted_datetimes, 1)
    IN  BuildTimeline(st.dict, sorted_datetimes, sorted_fnames)

-----------------------------------------------------------------------------
(* load_pairs_from_same_date_and_next_dates (loader.py) *)

RECURSIVE Concat(_)
\* the concatenation of a sequence of sequences
Concat(ss) == IF ss = <<>> THEN <<>> ELSE Head(ss) \o Concat(Tail(ss))

RECURSIVE SumSeq(_)
\* np.sum of a list
SumSeq(xs) == IF xs = <<>> THEN 0 ELSE Head(xs) + SumSeq(Tail(xs))

\* np.arange(lo, hi) as a list: lo, lo + 1, ..., hi - 1
Arange(lo, hi) == [x \in 1..(hi - lo) |-> lo + x - 1]

\* count_cams(timeline_indices[:n]): the images of the first n selected dates
count_cams(n_images, t_indices, n) ==
    SumSeq([x \in 1..n |-> n_images[t_indices[x] + 1]])

\* the inner range starting at cam_i itself: each image paired with itself
MutIntraPairsFromSelf(lo, hi) ==
    Concat([x \in 1..(hi - lo) |->
               [y \in 1..(hi - (lo + x - 1)) |-> <<lo + x - 1, lo + x - 2 + y>>]])

\* (1) pairs within the current date: cam_i in arange(lo, hi),
\* cam_j in arange(cam_i + 1, hi)
IntraPairs(lo, hi) ==
    Concat([x \in 1..(hi - lo) |->
               [y \in 1..(hi - (lo + x)) |-> <<lo + x - 1, lo + x - 1 + y>>]])

\* pairs between the images arange(lo, hi) and the images arange(lo2, hi2)
CrossPairs(lo, hi, lo2, hi2) ==
    Concat([x \in 1..(hi - lo) |->
               [y \in 1..(hi2 - lo2) |-> <<lo + x - 1, lo2 + y - 1>>]])

\* the range of next_date one short: arange(1, min(next_dates, dates_left + 1))
MutNextDateRangeShort(nd, left) == Arange(1, Min2(nd, left + 1))

\* np.arange(1, min(next_dates + 1, dates_left + 1)), dates_left already
\* decremented for the current date
NextDateRange(nd, left) == Arange(1, Min2(nd + 1, left + 1))

\* (2) pairs between the date at position k and the next dates
NextDatesPairs(n_images, t_indices, nd, k, so_far, left) ==
    LET cur == n_images[t_indices[k + 1] + 1]
        rng == NextDateRange(nd, left)
    IN  Concat([x \in 1..Len(rng) |->
            LET next_date_t_idx == t_indices[k + rng[x] + 1]
                cams_next_date == n_images[next_date_t_idx + 1]
                cams_until_next_date == count_cams(n_images, t_indices, k + rng[x])
            IN  CrossPairs(so_far, so_far + cur, cams_until_next_date,
                           cams_until_next_date + cams_next_date)])

\* the pairs one iteration of the loop over timeline_indices appends
DatePairs(n_images, t_indices, nd, intra, k, so_far, left) ==
    LET cur == n_images[t_indices[k + 1] + 1]
    IN  (IF intra THEN IntraPairs(so_far, so_far + cur) ELSE <<>>)
        \o NextDatesPairs(n_images, t_indices, nd, k, so_far, left - 1)

RECURSIVE PairsFrom(_, _, _, _, _, _, _)
PairsFrom(n_images, t_indices, nd, intra, k, so_far, left) ==
    IF k >= Len(t_indices)
    THEN <<>>
    ELSE DatePairs(n_images, t_indices, nd, intra, k, so_far, left)
         \o PairsFrom(n_images, t_indices, nd, intra, k + 1,
                      so_far + n_images[t_indices[k + 1] + 1], left - 1)

\* load_pairs_from_same_date_and_next_dates as a function of its arguments
LoadPairs(n_images, t_indices, nd, intra) ==
    PairsFrom(n_images, t_indices, nd, intra, 0, 0, Len(t_indices))

-----------------------------------------------------------------------------
(* File names and camera model files *)

\* a file that does not exist
NoFile == [kind |-> "none", image |-> 0, call |-> 0]

\* timeline_indices absent from the configuration
None == <<-1>>

\* a scene of five images at 0, 10, 300, 310 and 320 minutes
ExampleMinutes == <<0, 10, 300, 310, 320>>

\* the largest image number of a scene of the model
MaxStem ==
    IF MaxSceneImages > Len(ExampleMinutes) THEN MaxSceneImages ELSE Len(ExampleMinutes)

\* a file name without directory and extension: the number i of an image
\* <i>.JP2 and how many times "RPC_adj" follows it
Stems == (1..MaxStem) \X (0..1)

\* get_id(fname) for the path of the image file fname
get_id(fname) == <<fname, 0>>

\* add_suffix_to_fname(fname, "RPC_adj"), on the name without extension
add_suffix_to_fname(stem) == <<stem[1], stem[2] + 1>>

\* load_rpcs_from_dir: rpc_basename = get_id(add_suffix_to_fname(fname, suffix))
rpc_basename(fname) == add_suffix_to_fname(get_id(fname))

\* load_scene: "{}/{}.rpc".format(init_rpcs_dir, loader.get_id(fn))
init_rpc_fname(fname) == get_id(fname)

\* the camera model of image fname read from its source (geotiff, json, txt)
InitModel(fname) == [kind |-> "rpc", image |-> fname, call |-> 0]

\* a camera model file left under the name stem by an earlier use of the
\* output directory
PriorModel(stem) == [kind |-> "prior", image |-> stem[1], call |-> stem[2]]

\* the optimization core's adjusted model of image fname, c its call number
AdjModel(fname, c) == [kind |-> "adj", image |-> fname, call |-> c]

RECURSIVE SetToSeq(_)
\* the elements of a set of numbers as an ascending list
SetToSeq(S) ==
    IF S = {} THEN <<>>
    ELSE LET m == CHOOSE x \in S : \A y \in S : x <= y
         IN  <<m>> \o SetToSeq(S \ {m})

-----------------------------------------------------------------------------
(* Scene: loading camera models, anchors, the input of a call *)

\* load_data_from_dates going on when a model file is missing
MutLoadIgnoresMissing(tl, t_indices, dir) ==
    LET im_fnames == Concat([x \in 1..Len(t_indices) |-> tl[t_indices[x] + 1].fnames])
    IN  [ok |-> TRUE,
         n_cam |-> Len(im_fnames),
         images |-> [x \in 1..Len(im_fnames) |->
                        [fname |-> im_fnames[x],
                         rpc |-> dir[rpc_basename(im_fnames[x])]]]]

\* load_data_from_dates reading the first of the dates only
MutLoadFirstDateOnly(tl, t_indices, dir) ==
    LET im_fnames == IF t_indices = <<>> THEN <<>> ELSE tl[t_indices[1] + 1].fnames
    IN  [ok |-> \A x \in 1..Len(im_fnames) : dir[rpc_basename(im_fnames[x])] # NoFile,
         n_cam |-> Len(im_fnames),
         images |-> [x \in 1..Len(im_fnames) |->
                        [fname |-> im_fnames[x],
                         rpc |-> dir[rpc_basename(im_fnames[x])]]]]

\* load_data_from_dates: the images of the dates t_indices with the models
\* found for them in directory dir; ok is FALSE when a model file is missing
\* (rpcm.rpc_from_rpc_file raises)
load_data_from_dates(tl, t_indices, dir) ==
    LET im_fnames == Concat([x \in 1..Len(t_indices) |-> tl[t_indices[x] + 1].fnames])
    IN  [ok |-> \A x \in 1..Len(im_fnames) : dir[rpc_basename(im_fnames[x])] # NoFile,
         n_cam |-> Len(im_fnames),
         images |-> [x \in 1..Len(im_fnames) |->
                        [fname |-> im_fnames[x],
                         rpc |-> dir[rpc_basename(im_fnames[x])]]]]

\* the test with <= in place of <
MutIsPrevDateInclusive(i0, t_idx) == i0 <= t_idx

\* check_adjusted_dates: "idx < t_idx"
IsPrevDate(i0, t_idx) == i0 < t_idx

\* check_adjusted_dates, lines 292-293: the <id>.tif files of geotiff_dir
\* whose id names a file of rpcs_adj
adj_fnames(adjDir, adjFiles, tifs) ==
    IF adjDir THEN {i \in tifs : adjFiles[get_id(i)] # NoFile} ELSE {}

\* loader.get_acquisition_dates: the acquisition time of each file of a list
get_acquisition_dates(fnames, dts) == [x \in 1..Len(fnames) |-> dts[fnames[x]]]

\* loader.group_files_by_date(datetimes, fnames) with the argsort of numpy
group_files_by_date(dts, fnames) ==
    GroupFilesByDate(dts, fnames, CHOOSE q \in ArgSorts(dts) : TRUE)

\* [d["id"] for d in timeline]
entry_ids(tl) == {tl[x].id : x \in 1..Len(tl)}

\* check_adjusted_dates, lines 296-299: the ids of the dates of the files fn
adj_ids_of(fn, dts) == entry_ids(group_files_by_date(get_acquisition_dates(fn, dts), fn))

\* check_adjusted_dates, lines 292-299: the ids of the dates found adjusted
\* on disk
timeline_adj_ids(dts, adjDir, adjFiles, tifs) ==
    adj_ids_of(SetToSeq(adj_fnames(adjDir, adjFiles, tifs)), dts)

\* check_adjusted_dates, lines 300-308: the entries with an id of ids at a
\* position before t_idx are flagged; the result tells whether any was
flag_prev_adj_dates(tl, t_idx, ids) ==
    [timeline |-> [x \in 1..Len(tl) |->
                      IF tl[x].id \in ids /\ IsPrevDate(x - 1, t_idx)
                      THEN [tl[x] EXCEPT !.adjusted = TRUE] ELSE tl[x]],
     found |-> \E i0 \in 0..(Len(tl) - 1) :
                  tl[i0 + 1].id \in ids /\ IsPrevDate(i0, t_idx)]

\* check_adjusted_dates: the timeline with the flags it sets, and its result
check_adjusted_dates(tl, t_idx, dts, adjDir, adjFiles, tifs) ==
    flag_prev_adj_dates(tl, t_idx, timeline_adj_ids(dts, adjDir, adjFiles, tifs))

\* sorted(indices, key=lambda x: abs(x - t_idx)) for an ascending list: by
\* distance, equal distances in the order of the list
closest_adj_t_indices(indices, t_idx) ==
    CHOOSE q \in [1..Len(indices) -> Range(indices)] :
        /\ Range(q) = Range(indices)
        /\ \A i, j \in 1..Len(q) :
              i < j => \/ Abs(q[i] - t_idx) < Abs(q[j] - t_idx)
                       \/ Abs(q[i] - t_idx) = Abs(q[j] - t_idx) /\ q[i] < q[j]

\* a Scene whose input fields are left as they are
MutInitKeepsInput(cur) == cur

\* init_ba_input_data: the input fields of the Scene emptied
init_ba_input_data(cur) == [n_adj |-> 0, images_adj |-> <<>>, images_new |-> <<>>]

\* load_prev_adjusted_dates, lines 341-347, chk the result of
\* check_adjusted_dates and cur the input fields of the Scene: the anchors
\* loaded from rpcs_adj are added to cur ("self.n_adj += n_cam",
\* "self.images_adj.extend(images)")
load_prev_after_check(cur, chk, t_idx, previous_dates, adjFiles) ==
    LET all_prev_adj_t_indices ==
            SetToSeq({i0 \in 0..(Len(chk.timeline) - 1) : chk.timeline[i0 + 1].adjusted})
        closest == closest_adj_t_indices(all_prev_adj_t_indices, t_idx)
        adj_t_indices_to_use == SubSeq(closest, 1, Min2(previous_dates, Len(closest)))
        loaded == load_data_from_dates(chk.timeline, adj_t_indices_to_use, adjFiles)
    IN  IF chk.found
        THEN [timeline |-> chk.timeline, ok |-> loaded.ok,
              adj_t_indices |-> adj_t_indices_to_use,
              n_adj |-> IF loaded.ok THEN cur.n_adj + loaded.n_cam ELSE cur.n_adj,
              images_adj |-> IF loaded.ok THEN cur.images_adj \o loaded.images
                             ELSE cur.images_adj,
              images_new |-> cur.images_new]
        ELSE [timeline |-> chk.timeline, ok |-> TRUE, adj_t_indices |-> <<>>,
              n_adj |-> cur.n_adj, images_adj |-> cur.images_adj,
              images_new |-> cur.images_new]

\* load_prev_adjusted_dates: the timeline after check_adjusted_dates and the
\* anchors loaded from rpcs_adj
load_prev_adjusted_dates(cur, tl, t_idx, previous_dates, dts, adjDir, adjFiles, tifs) ==
    load_prev_after_check(cur,
                          check_adjusted_dates(tl, t_idx, dts, adjDir, adjFiles, tifs),
                          t_idx, previous_dates, adjFiles)

\* min(t_indices)
MinOf(xs) == CHOOSE m \in Range(xs) : \A y \in Range(xs) : m <= y

\* set_ba_input_data, line 364, prev the input fields with the anchors: the
\* new images are loaded from rpcs_init and added to images_new
\* ("self.n_adj += 0", "self.images_new.extend(images)")
load_new_after_prev(prev, t_indices, initFiles) ==
    LET new == load_data_from_dates(prev.timeline, t_indices, initFiles)
    IN  [ok |-> prev.ok /\ new.ok,
         timeline |-> prev.timeline,
         adj_t_indices |-> prev.adj_t_indices,
         n_adj |-> prev.n_adj,
         images_adj |-> prev.images_adj,
         images_new |-> IF prev.ok /\ new.ok THEN prev.images_new \o new.images
                        ELSE prev.images_new]

\* set_ba_input_data, lines 360-364, init the input fields after
\* init_ba_input_data
set_ba_after_init(init, tl, t_indices, previous_dates, dts, initFiles, adjDir, adjFiles, tifs) ==
    load_new_after_prev(
        IF previous_dates > 0
        THEN load_prev_adjusted_dates(init, tl, MinOf(t_indices), previous_dates,
                                      dts, adjDir, adjFiles, tifs)
        ELSE [timeline |-> tl, ok |-> TRUE, adj_t_indices |-> <<>>,
              n_adj |-> init.n_adj, images_adj |-> init.images_adj,
              images_new |-> init.images_new],
        t_indices, initFiles)

\* set_ba_input_data on a Scene with input fields cur: the fields it leaves
\* in the Scene; ok is FALSE when a camera model file was missing, and the
\* fields are those set before that
set_ba_input_data(cur, tl, t_indices, previous_dates, dts, initFiles, adjDir, adjFiles, tifs) ==
    set_ba_after_init(init_ba_input_data(cur), tl, t_indices, previous_dates, dts,
                      initFiles, adjDir, adjFiles, tifs)

-----------------------------------------------------------------------------
(* SpecCluster: group_files_by_date on every input within the bounds; the  *)
(* image file names are the positions 1..n of the input list               *)

image_fnames == [i \in 1..Len(datetimes) |-> i]

sorted_datetimes_g == Reorder(datetimes, sorted_indices)

sorted_fnames_g == Reorder(image_fnames, sorted_indices)

\* the state of the pair generator while it is not running
PairsIdle ==
    /\ p_n_images = <<>>
    /\ timeline_indices = <<>>
    /\ next_dates = 0
    /\ intra_date = FALSE
    /\ k_pos = 0
    /\ init_pairs = <<>>
    /\ cams_so_far = 0
    /\ dates_left = 0
    /\ ppc = "idle"

\* the state of group_files_by_date while it is not running
ClusterIdle ==
    /\ datetimes = <<>>
    /\ sorted_indices = <<>>
    /\ im_idx = 1
    /\ d = <<>>
    /\ dates_already_seen = <<>>
    /\ g_timeline = <<>>
    /\ gpc = "idle"

\* the state of the output directory and the Scene while no process runs
SceneIdle ==
    /\ img_dt = <<>>
    /\ tif_ids = {}
    /\ args = [ba_method |-> "ba_bruteforce", timeline_indices |-> None,
               n_dates |-> 1, fix_ref_cam |-> FALSE, reset |-> TRUE,
               geotiff_dir_ok |-> TRUE, rpc_dir_ok |-> TRUE,
               correction_params_ok |-> TRUE]
    /\ dst_dir = FALSE
    /\ rpcs_init = [st \in Stems |-> NoFile]
    /\ ba_dir = FALSE
    /\ rpcs_adj = [st \in Stems |-> NoFile]
    /\ pc = "idle"
    /\ timeline = <<>>
    /\ selected_timeline_indices = None
    /\ fix_ref_cam = FALSE
    /\ n_adj = 0
    /\ images_adj = <<>>
    /\ images_new = <<>>
    /\ ba_data = <<>>
    /\ FT_predefined_pairs = <<>>
    /\ idx = 0
    /\ calls = <<>>
    /\ io = {}
    /\ run = 0
    /\ stops = <<>>

\* what the steps of group_files_by_date leave alone
outsideCluster == <<pairVars, sceneVars>>

\* what the steps of the pair generator leave alone
outsidePairs == <<clusterVars, sceneVars>>

ClusterInit ==
    /\ datetimes \in SeqsUpTo(TimeGrid, MaxImages)
    /\ sorted_indices \in ArgSorts(datetimes)
    /\ im_idx = 1
    /\ d = <<>>
    /\ dates_already_seen = <<>>
    /\ g_timeline = <<>>
    /\ gpc = "loop"
    /\ PairsIdle
    /\ SceneIdle

\* an image within the margin of a date already seen joins that date
JoinDate ==
    /\ gpc = "loop"
    /\ im_idx <= Len(datetimes)
    /\ JoinPos(dates_already_seen, sorted_datetimes_g[im_idx]) # 0
    /\ LET st == LoopBody([dict |-> d, seen |-> dates_already_seen],
                          sorted_datetimes_g, im_idx)
       IN  /\ d' = st.dict
           /\ dates_already_seen' = st.seen
    /\ im_idx' = im_idx + 1
    /\ UNCHANGED <<datetimes, sorted_indices, g_timeline, gpc, outsideCluster>>

\* any other image starts a new date
NewDate ==
    /\ gpc = "loop"
    /\ im_idx <= Len(datetimes)
    /\ JoinPos(dates_already_seen, sorted_datetimes_g[im_idx]) = 0
    /\ LET st == LoopBody([dict |-> d, seen |-> dates_already_seen],
                          sorted_datetimes_g, im_idx)
       IN  /\ d' = st.dict
           /\ dates_already_seen' = st.seen
    /\ im_idx' = im_idx + 1
    /\ UNCHANGED <<datetimes, sorted_indices, g_timeline, gpc, outsideCluster>>

\* after the loop: the timeline is built from the dict and returned
ReturnTimeline ==
    /\ gpc = "loop"
    /\ im_idx > Len(datetimes)
    /\ g_timeline' = BuildTimeline(d, sorted_datetimes_g, sorted_fnames_g)
    /\ gpc' = "done"
    /\ UNCHANGED <<datetimes, sorted_indices, im_idx, d, dates_already_seen,
                   outsideCluster>>

ClusterNext == JoinDate \/ NewDate \/ ReturnTimeline

SpecCluster == ClusterInit /\ [][ClusterNext]_vars

-----------------------------------------------------------------------------
(* SpecPairs: load_pairs_from_same_date_and_next_dates on a timeline of     *)
(* MaxDates entries and every selection of distinct dates, in any order    *)

\* the lists of distinct timeline indices
Selections ==
    {sel \in SeqsUpTo(0..(MaxDates - 1), MaxDates) :
        \A i, j \in 1..Len(sel) : i # j => sel[i] # sel[j]}

PairsInit ==
    /\ p_n_images \in [1..MaxDates -> 1..MaxSize]
    /\ timeline_indices \in Selections
    /\ next_dates \in 0..MaxLook
    /\ intra_date \in BOOLEAN
    /\ k_pos = 0
    /\ init_pairs = <<>>
    /\ cams_so_far = 0
    /\ dates_left = Len(timeline_indices)
    /\ ppc = "loop"
    /\ ClusterIdle
    /\ SceneIdle

\* one iteration of "for k, t_idx in enumerate(timeline_indices)"
PairsOfDate ==
    /\ ppc = "loop"
    /\ k_pos < Len(timeline_indices)
    /\ init_pairs' = init_pairs \o DatePairs(p_n_images, timeline_indices, next_dates,
                                             intra_date, k_pos, cams_so_far, dates_left)
    /\ dates_left' = dates_left - 1
    /\ cams_so_far' = cams_so_far + p_n_images[timeline_indices[k_pos + 1] + 1]
    /\ k_pos' = k_pos + 1
    /\ UNCHANGED <<p_n_images, timeline_indices, next_dates, intra_date, ppc,
                   outsidePairs>>

\* return init_pairs
ReturnPairs ==
    /\ ppc = "loop"
    /\ k_pos = Len(timeline_indices)
    /\ ppc' = "done"
    /\ UNCHANGED <<p_n_images, timeline_indices, next_dates, intra_date, k_pos,
                   init_pairs, cams_so_far, dates_left, outsidePairs>>

PairsNext == PairsOfDate \/ ReturnPairs

SpecPairs == PairsInit /\ [][PairsNext]_vars

-----------------------------------------------------------------------------
(* Spec: one output directory and the processes run on it. A process       *)
(* builds a Scene from the configuration and calls                         *)
(* run_bundle_adjustment_for_RPC_refinement; it may be killed and started  *)
(* again with the same configuration.                                      *)

\* gaps between consecutive images of a scene: 20 minutes (the same date
\* unless the date began earlier) and 60 minutes (always a new date)
ShortGap == 20 * SecsPerMin

LongGap == 60 * SecsPerMin

\* the acquisition times of the scene of ExampleMinutes
ExampleTimes == [i \in 1..Len(ExampleMinutes) |-> ExampleMinutes[i] * SecsPerMin]

\* the acquisition times of the scenes: no image at all, the five images of
\* ExampleTimes, or MaxSceneImages images, the first at 0 and each a gap
\* after the one before
SceneTimes ==
    {<<>>} \cup {ExampleTimes} \cup
    {[i \in 1..MaxSceneImages |-> SumSeq([j \in 1..(i - 1) |-> g[j]])] :
        g \in [1..(MaxSceneImages - 1) -> {ShortGap, LongGap}]}

\* the dates of a scene with acquisition times dts
NumDates(dts) == Len(group_files_by_date(dts, [i \in 1..Len(dts) |-> i]))

\* timeline_indices of a configuration: absent, or distinct indices of the
\* timeline in any order
SceneSelections(n) ==
    {None} \cup
    {sel \in SeqsUpTo(0..(n - 1), n) :
        /\ Len(sel) > 0
        /\ \A i, j \in 1..Len(sel) : i # j => sel[i] # sel[j]}

Methods == {"ba_sequential", "ba_global", "ba_bruteforce", "ba_other"}

\* what an earlier use of the output directory left for each image:
\* 0 nothing, 1 rpcs_init/<i>RPC_adj.rpc, 2 also rpcs_adj/<i>.rpc_adj,
\* 3 also rpcs_adj/<i>RPC_adj.rpc_adj
DiskLevels(n) == [1..n -> 0..3]

\* the levels that leave no partial set of adjusted models
PlainLevels(n) == [1..n -> 0..1] \cup {[i \in 1..n |-> 3]}

\* the levels with at most one image short of a full set
NearFullLevels(n) ==
    {level \in DiskLevels(n) : Cardinality({i \in 1..n : level[i] # 3}) <= 1}

\* the configurations of the model for a scene with acquisition times dts
\* and <id>.tif files tifs
SceneArgs(dts, tifs) ==
    {a \in [ba_method : Methods,
            timeline_indices : SceneSelections(NumDates(dts)),
            n_dates : 0..MaxPrevDates,
            fix_ref_cam : BOOLEAN,
            reset : BOOLEAN,
            geotiff_dir_ok : BOOLEAN,
            rpc_dir_ok : BOOLEAN,
            correction_params_ok : BOOLEAN] :
        LET faulty == ~(a.geotiff_dir_ok /\ a.rpc_dir_ok /\ a.correction_params_ok)
            default == /\ a.ba_method = "ba_bruteforce"
                       /\ a.timeline_indices = None
                       /\ a.n_dates = 1
                       /\ ~a.fix_ref_cam
                       /\ a.reset
        IN  \* at most one configuration error, the rest as by default
            /\ \/ a.geotiff_dir_ok /\ a.rpc_dir_ok
               \/ a.geotiff_dir_ok /\ a.correction_params_ok
               \/ a.rpc_dir_ok /\ a.correction_params_ok
            /\ faulty => default
            /\ Len(dts) = 0 => default
            /\ a.ba_method = "ba_other" =>
                  a.timeline_indices = None /\ a.n_dates = 1
            /\ a.ba_method = "ba_bruteforce" => a.n_dates = 1
            \* fix_ref_cam is read by the sequential strategy only
            /\ a.ba_method # "ba_sequential" => ~a.fix_ref_cam
            /\ a.ba_method = "ba_other" => tifs = {}
            \* the scene of ExampleTimes is run at once
            /\ Len(dts) > MaxSceneImages =>
                  a.ba_method \in {"ba_bruteforce", "ba_global"} /\ tifs = {}}

\* the prior disk states of the model: partial sets of adjusted models where
\* anchors are looked for
SceneLevels(dts, tifs, a) ==
    IF a.ba_method = "ba_sequential" /\ ~a.reset /\ tifs # {}
    THEN PlainLevels(Len(dts)) \cup NearFullLevels(Len(dts))
    ELSE PlainLevels(Len(dts))

SceneInit ==
    /\ img_dt \in SceneTimes
    /\ tif_ids \in {{}, 1..Len(img_dt)}
    /\ args \in SceneArgs(img_dt, tif_ids)
    /\ \E level \in SceneLevels(img_dt, tif_ids, args) :
          /\ dst_dir = (\E i \in 1..Len(img_dt) : level[i] >= 1)
          /\ rpcs_init = [st \in Stems |->
                 IF st[1] <= Len(img_dt) /\ st[2] = 1 /\ level[st[1]] >= 1
                 THEN PriorModel(st) ELSE NoFile]
          /\ ba_dir = (\E i \in 1..Len(img_dt) : level[i] >= 2)
          /\ rpcs_adj = [st \in Stems |->
                 IF st[1] <= Len(img_dt) /\ level[st[1]] >= 2 + st[2]
                 THEN PriorModel(st) ELSE NoFile]
    /\ pc = "new"
    /\ timeline = <<>>
    /\ selected_timeline_indices = None
    /\ fix_ref_cam = FALSE
    /\ n_adj = 0
    /\ images_adj = <<>>
    /\ images_new = <<>>
    /\ ba_data = <<>>
    /\ FT_predefined_pairs = <<>>
    /\ idx = 0
    /\ calls = <<>>
    /\ io = {}
    /\ run = 1
    /\ stops = <<>>
    /\ ClusterIdle
    /\ PairsIdle

\* what the steps of a Scene leave alone
outsideScene == <<clusterVars, pairVars>>

\* the checks without the one of the correction parameters
MutConfigSkipsParams(a) == a.geotiff_dir_ok /\ a.rpc_dir_ok

\* Scene.__init__, lines 151-157: geotiff_dir and rpc_dir are directories and
\* every correction parameter is one of R, T, K, COMMON_K
config_checks_pass(a) ==
    a.geotiff_dir_ok /\ a.rpc_dir_ok /\ a.correction_params_ok

\* Scene.__init__ raising Error: a directory is missing or a correction
\* parameter is not one of R, T, K, COMMON_K
ConstructFails ==
    /\ pc = "new"
    /\ ~config_checks_pass(args)
    /\ pc' = "error_config"
    /\ UNCHANGED <<envVars, diskVars, inputVars, timeline, selected_timeline_indices,
                   fix_ref_cam, FT_predefined_pairs, idx, calls, io, run, stops,
                   outsideScene>>

\* Scene.__init__ with load_scene: the output directory is created, the
\* initial models are saved, the timeline is built; self.timeline[0] raises
\* IndexError on an empty timeline
Construct ==
    /\ pc = "new"
    /\ config_checks_pass(args)
    /\ dst_dir' = TRUE
    /\ rpcs_init' = [st \in Stems |->
           IF \E fn \in 1..Len(img_dt) : init_rpc_fname(fn) = st
           THEN InitModel(st[1]) ELSE rpcs_init[st]]
    /\ \E p \in ArgSorts(img_dt) :
          timeline' = GroupFilesByDate(img_dt, [i \in 1..Len(img_dt) |-> i], p)
    /\ selected_timeline_indices' = args.timeline_indices
    /\ fix_ref_cam' = args.fix_ref_cam
    /\ n_adj' = 0
    /\ images_adj' = <<>>
    /\ images_new' = <<>>
    /\ io' = io \cup {"makedirs_dst", "read_geotiffs", "save_rpcs_init"}
    /\ pc' = IF Len(img_dt) = 0 THEN "error_index" ELSE "loaded"
    /\ UNCHANGED <<envVars, ba_dir, rpcs_adj, ba_data, FT_predefined_pairs, idx,
                   calls, run, stops, outsideScene>>

\* a removal that leaves the files where they are
MutRmtreeKeepsFiles(files) == files

\* reset_ba_params, lines 404-406: shutil.rmtree(ba_dir) on the files of
\* <output_dir>/<ba_method>/rpcs_adj
rmtree(files) == [st \in DOMAIN files |-> NoFile]

\* run_bundle_adjustment_for_RPC_refinement, lines 535-547: the selection
\* defaults to every date; reset_ba_params removes <output_dir>/<ba_method>
\* and clears every adjusted flag
StartRun ==
    /\ pc = "loaded"
    /\ selected_timeline_indices' =
           IF selected_timeline_indices = None
           THEN [x \in 1..Len(timeline) |-> x - 1]
           ELSE selected_timeline_indices
    /\ IF args.reset
       THEN /\ ba_dir' = FALSE
            /\ rpcs_adj' = rmtree(rpcs_adj)
            /\ timeline' = [x \in 1..Len(timeline) |->
                               [timeline[x] EXCEPT !.adjusted = FALSE]]
            /\ io' = IF ba_dir THEN io \cup {"rmtree_ba_dir"} ELSE io
       ELSE UNCHANGED <<ba_dir, rpcs_adj, timeline, io>>
    /\ pc' = "dispatch"
    /\ UNCHANGED <<envVars, dst_dir, rpcs_init, inputVars, fix_ref_cam,
                   FT_predefined_pairs, idx, calls, run, stops, outsideScene>>

\* lines 563-566: ba_method is none of the three strategies; sys.exit()
DispatchInvalid ==
    /\ pc = "dispatch"
    /\ args.ba_method \notin {"ba_sequential", "ba_global", "ba_bruteforce"}
    /\ pc' = "exited"
    /\ UNCHANGED <<envVars, diskVars, inputVars, timeline, selected_timeline_indices,
                   fix_ref_cam, FT_predefined_pairs, idx, calls, io, run, stops,
                   outsideScene>>

\* run_sequential_bundle_adjustment, lines 412-419
RunSequential ==
    /\ pc = "dispatch"
    /\ args.ba_method = "ba_sequential"
    /\ ba_dir' = TRUE
    /\ io' = io \cup {"makedirs_ba_dir"}
    /\ FT_predefined_pairs' = <<>>
    /\ idx' = 0
    /\ pc' = "seq_input"
    /\ UNCHANGED <<envVars, dst_dir, rpcs_init, rpcs_adj, inputVars, timeline,
                   selected_timeline_indices, fix_ref_cam, calls, run, stops, outsideScene>>

\* self.n_adj, self.images_adj and self.images_new of the Scene
InputFields == [n_adj |-> n_adj, images_adj |-> images_adj, images_new |-> images_new]

\* every entry counted as one image
MutNImagesAllOne(tl) == [x \in 1..Len(tl) |-> 1]

\* the n_images of the entries of a timeline
n_images_of(tl) == [x \in 1..Len(tl) |-> tl[x].n_images]

\* the file system operations of set_ba_input_data
InputIo(previous_dates) ==
    IF previous_dates > 0 THEN {"glob_rpcs_adj", "load_rpcs"} ELSE {"load_rpcs"}

\* the flag left as it is for every date
MutFixRefCamKept(i, n_dates, fix) == fix

\* run_sequential_bundle_adjustment, lines 422-425: self.fix_ref_cam for the
\* date at position i of the selection
next_fix_ref_cam(i, n_dates, fix) ==
    \/ i = 0 /\ fix
    \/ n_dates = 0 /\ fix

\* the loop of run_sequential_bundle_adjustment, lines 420-425:
\* set_ba_input_data for the date at position idx of the selection, then the
\* update of fix_ref_cam; a missing camera model file ends the process
SeqSetInput ==
    /\ pc = "seq_input"
    /\ \E r \in {set_ba_input_data(InputFields, timeline,
                                    <<selected_timeline_indices[idx + 1]>>,
                                    args.n_dates, img_dt, rpcs_init, ba_dir,
                                    rpcs_adj, tif_ids)} :
           /\ timeline' = r.timeline
           /\ n_adj' = r.n_adj
           /\ images_adj' = r.images_adj
           /\ images_new' = r.images_new
           /\ ba_data' = IF r.ok THEN r.images_adj \o r.images_new ELSE ba_data
           /\ fix_ref_cam' =
                  IF r.ok
                  THEN next_fix_ref_cam(idx, args.n_dates, fix_ref_cam)
                  ELSE fix_ref_cam
           /\ pc' = IF r.ok THEN "seq_ba" ELSE "error_missing"
    /\ io' = io \cup InputIo(args.n_dates)
    /\ UNCHANGED <<envVars, diskVars, selected_timeline_indices, FT_predefined_pairs,
                   idx, calls, run, stops, outsideScene>>

\* run_global_bundle_adjustment, lines 457-465: the pairs of the selected
\* dates, then set_ba_input_data for all of them with previous_dates = 0
RunGlobal ==
    /\ pc = "dispatch"
    /\ args.ba_method = "ba_global"
    /\ ba_dir' = TRUE
    /\ FT_predefined_pairs' =
           LoadPairs(n_images_of(timeline), selected_timeline_indices, args.n_dates, TRUE)
    /\ \E r \in {set_ba_input_data(InputFields, timeline,
                                    selected_timeline_indices, 0, img_dt,
                                    rpcs_init, TRUE, rpcs_adj, tif_ids)} :
           /\ timeline' = r.timeline
           /\ n_adj' = r.n_adj
           /\ images_adj' = r.images_adj
           /\ images_new' = r.images_new
           /\ ba_data' = IF r.ok THEN r.images_adj \o r.images_new ELSE ba_data
           /\ pc' = IF r.ok THEN "once_ba" ELSE "error_missing"
    /\ io' = io \cup {"makedirs_ba_dir"} \cup InputIo(0)
    /\ UNCHANGED <<envVars, dst_dir, rpcs_init, rpcs_adj, selected_timeline_indices,
                   fix_ref_cam, idx, calls, run, stops, outsideScene>>

\* run_bruteforce_bundle_adjustment, lines 479-483: no pair restriction,
\* set_ba_input_data for all selected dates with previous_dates = 0
RunBruteforce ==
    /\ pc = "dispatch"
    /\ args.ba_method = "ba_bruteforce"
    /\ ba_dir' = TRUE
    /\ FT_predefined_pairs' = <<>>
    /\ \E r \in {set_ba_input_data(InputFields, timeline,
                                    selected_timeline_indices, 0, img_dt,
                                    rpcs_init, TRUE, rpcs_adj, tif_ids)} :
           /\ timeline' = r.timeline
           /\ n_adj' = r.n_adj
           /\ images_adj' = r.images_adj
           /\ images_new' = r.images_new
           /\ ba_data' = IF r.ok THEN r.images_adj \o r.images_new ELSE ba_data
           /\ pc' = IF r.ok THEN "once_ba" ELSE "error_missing"
    /\ io' = io \cup {"makedirs_ba_dir"} \cup InputIo(0)
    /\ UNCHANGED <<envVars, dst_dir, rpcs_init, rpcs_adj, selected_timeline_indices,
                   fix_ref_cam, idx, calls, run, stops, outsideScene>>

\* BundleAdjustmentPipeline.run() persisting its result: an adjusted model
\* <id>.rpc_adj for each new image, the images after the first n anchors
PipelineSave(adjFiles, images, n, c) ==
    [st \in Stems |->
        IF \E x \in (n + 1)..Len(images) : get_id(images[x].fname) = st
        THEN AdjModel(st[1], c)
        ELSE adjFiles[st]]

\* the dates handed to set_ba_input_data for the call being prepared
CurrentDates ==
    IF args.ba_method = "ba_sequential"
    THEN <<selected_timeline_indices[idx + 1]>>
    ELSE selected_timeline_indices

\* bundle_adjust: the optimization core is called with ba_data, n_adj,
\* fix_ref_cam and the pair restriction, and persists the adjusted models
BundleAdjust ==
    /\ pc \in {"seq_ba", "once_ba"}
    /\ calls' = Append(calls,
           [run |-> run,
            t_indices |-> CurrentDates,
            images |-> ba_data,
            images_adj |-> images_adj,
            images_new |-> images_new,
            n_adj |-> n_adj,
            fix_ref_cam |-> fix_ref_cam,
            pairs |-> FT_predefined_pairs])
    /\ rpcs_adj' = PipelineSave(rpcs_adj, ba_data, n_adj, Len(calls) + 1)
    /\ io' = io \cup {"save_rpcs_adj"}
    /\ pc' = IF pc = "seq_ba" THEN "seq_after" ELSE "done"
    /\ UNCHANGED <<envVars, dst_dir, rpcs_init, ba_dir, inputVars, timeline,
                   selected_timeline_indices, fix_ref_cam, FT_predefined_pairs, idx,
                   run, stops, outsideScene>>

\* the rest of the loop body, lines 427-442:
\* compute_reprojection_error_before_and_after_bundle_adjust loads the initial
\* and the adjusted model of every image of the call through
\* load_rpcs_from_dir; then the next date, or the end of the run
SeqAfterAdjust ==
    /\ pc = "seq_after"
    /\ LET found == \A x \in 1..Len(ba_data) :
                        /\ rpcs_init[rpc_basename(ba_data[x].fname)] # NoFile
                        /\ rpcs_adj[rpc_basename(ba_data[x].fname)] # NoFile
       IN  IF found
           THEN /\ idx' = idx + 1
                /\ pc' = IF idx + 1 < Len(selected_timeline_indices)
                         THEN "seq_input" ELSE "done"
           ELSE /\ idx' = idx
                /\ pc' = "error_missing"
    /\ io' = io \cup {"load_rpcs"}
    /\ UNCHANGED <<envVars, diskVars, inputVars, timeline, selected_timeline_indices,
                   fix_ref_cam, FT_predefined_pairs, calls, run, stops, outsideScene>>

\* the process is killed between two steps of a sequential run
Interrupt ==
    /\ pc \in {"seq_input", "seq_after"}
    /\ pc' = "killed"
    /\ UNCHANGED <<envVars, diskVars, inputVars, timeline, selected_timeline_indices,
                   fix_ref_cam, FT_predefined_pairs, idx, calls, io, run, stops,
                   outsideScene>>

\* a new process is started with the same configuration on the same output
\* directory, after a kill or a missing model
Reinvoke ==
    /\ pc \in {"killed", "error_missing"}
    /\ run < MaxRuns
    /\ run' = run + 1
    /\ pc' = "new"
    /\ timeline' = <<>>
    /\ selected_timeline_indices' = None
    /\ fix_ref_cam' = FALSE
    /\ n_adj' = 0
    /\ images_adj' = <<>>
    /\ images_new' = <<>>
    /\ ba_data' = <<>>
    /\ FT_predefined_pairs' = <<>>
    /\ idx' = 0
    /\ io' = {}
    /\ stops' = Append(stops, pc)
    /\ UNCHANGED <<envVars, diskVars, calls, outsideScene>>

Next ==
    \/ ConstructFails
    \/ Construct
    \/ StartRun
    \/ DispatchInvalid
    \/ RunSequential
    \/ SeqSetInput
    \/ RunGlobal
    \/ RunBruteforce
    \/ BundleAdjust
    \/ SeqAfterAdjust
    \/ Interrupt
    \/ Reinvoke

Spec == SceneInit /\ [][Next]_vars

-----------------------------------------------------------------------------
(* Properties of group_files_by_date (SpecCluster) *)

\* the input images i and j are members of one timeline entry
SameEntry(i, j) ==
    \E k \in 1..Len(g_timeline) :
        {i, j} \subseteq Range(g_timeline[k].fnames)

MarginSecs == margin * SecsPerMin

\* C1: two images whose times differ by exactly 30 minutes are never in the
\* same timeline entry, whatever other images there are; two images less
\* than 30 minutes apart, alone in the input, are in the same entry.
C1_ThresholdBoundary ==
    gpc = "done" =>
        /\ \A i, j \in 1..Len(datetimes) :
              dt_diff_in_secs(datetimes[i], datetimes[j]) = MarginSecs
                  => ~SameEntry(i, j)
        /\ (Len(datetimes) = 2
              /\ dt_diff_in_secs(datetimes[1], datetimes[2]) < MarginSecs)
                  => SameEntry(1, 2)

\* C1 witness: two images exactly 30 minutes apart end in two entries
C1_Witness ==
    /\ gpc = "done"
    /\ Len(datetimes) = 2
    /\ dt_diff_in_secs(datetimes[1], datetimes[2]) = MarginSecs
    /\ Len(g_timeline) = 2

\* the input is three images at t0, t0 + 20 min and t0 + 35 min, given as the
\* positions a, b, c of the input list
IsGreedyExample(a, b, c) ==
    /\ Len(datetimes) = 3
    /\ {a, b, c} = {1, 2, 3}
    /\ datetimes[b] = datetimes[a] + 20 * SecsPerMin
    /\ datetimes[c] = datetimes[a] + 35 * SecsPerMin

\* C2 as stated: of three images at t0, t0 + 20 min, t0 + 35 min the third
\* is placed in the timeline entry of the second.
C2_ThirdJoinsSecond ==
    gpc = "done" =>
        \A a, b, c \in 1..Len(datetimes) :
            IsGreedyExample(a, b, c) => SameEntry(b, c)

\* C2 amended: of three images at t0, t0 + 20 min, t0 + 35 min the second
\* joins the entry of the first (20 < 30 from its representative t0) and
\* the third starts an entry of its own (35 >= 30 from t0).
C2_ThirdStartsNewDate ==
    gpc = "done" =>
        \A a, b, c \in 1..Len(datetimes) :
            IsGreedyExample(a, b, c) =>
                /\ SameEntry(a, b)
                /\ ~SameEntry(b, c)
                /\ ~SameEntry(a, c)
                /\ Len(g_timeline) = 2
                /\ g_timeline[2].fnames = <<c>>

\* C2 witness: the example has been clustered
C2_Witness ==
    /\ gpc = "done"
    /\ \E a, b, c \in 1..Len(datetimes) : IsGreedyExample(a, b, c)

-----------------------------------------------------------------------------
(* Properties of load_pairs_from_same_date_and_next_dates (SpecPairs) *)

\* n_images of the selected dates, in the order of the selection
SelSizes == [x \in 1..Len(timeline_indices) |-> p_n_images[timeline_indices[x] + 1]]

\* the images of all selected dates
TotalCams == SumSeq(SelSizes)

\* first position, in the concatenation, of the images of the k-th selected
\* date (k from 0)
FirstCam(k) == SumSeq(SubSeq(SelSizes, 1, k))

\* the selected date (its position in the selection, from 0) of image c
DateOfCam(c) ==
    CHOOSE k \in 0..(Len(timeline_indices) - 1) :
        FirstCam(k) <= c /\ c < FirstCam(k) + SelSizes[k + 1]

\* the returned pairs whose images belong to the selected dates a and b
PairsBetween(a, b) ==
    {x \in 1..Len(init_pairs) :
        DateOfCam(init_pairs[x][1]) = a /\ DateOfCam(init_pairs[x][2]) = b}

\* the selection of the worked example: three dates of sizes 2, 1, 3, paired
\* with the next date only
IsPairExample == SelSizes = <<2, 1, 3>> /\ next_dates = 1 /\ intra_date

\* C9: every returned pair (i, j) has i < j and no pair is listed twice;
\* three selected dates of sizes [2, 1, 3] with next_dates = 1 and intra_date
\* give exactly 9 pairs: 4 within a date, 2 between the first and the
\* second date, 3 between the second and the third.
C9_PairCompleteness ==
    ppc = "done" =>
        /\ \A x \in 1..Len(init_pairs) : init_pairs[x][1] < init_pairs[x][2]
        /\ \A x, y \in 1..Len(init_pairs) : x # y => init_pairs[x] # init_pairs[y]
        /\ IsPairExample =>
              /\ Len(init_pairs) = 9
              /\ Cardinality(PairsBetween(0, 0) \cup PairsBetween(1, 1)
                                 \cup PairsBetween(2, 2)) = 4
              /\ Cardinality(PairsBetween(0, 1)) = 2
              /\ Cardinality(PairsBetween(1, 2)) = 3

\* C9 witness: the pairs of the worked example have been returned
C9_Witness == ppc = "done" /\ IsPairExample /\ Len(init_pairs) = 9

\* the rule of the pair generator for the images i < j of the selection
PairRule(i, j) ==
    \/ DateOfCam(i) = DateOfCam(j) /\ intra_date
    \/ /\ DateOfCam(j) - DateOfCam(i) >= 1
       /\ DateOfCam(j) - DateOfCam(i) <= next_dates

\* C10: the returned pairs are exactly the pairs (i, j), i < j, of positions
\* in the concatenation of the selected dates' images such that both are of
\* the same selected date and intra_date holds, or the date of j comes 1 to
\* next_dates positions after the date of i in the selection; so every
\* returned index is in [0, total selected images), also when next_dates
\* exceeds the dates left.
C10_PairRule ==
    ppc = "done" =>
        Range(init_pairs) =
            {pr \in (0..(TotalCams - 1)) \X (0..(TotalCams - 1)) :
                pr[1] < pr[2] /\ PairRule(pr[1], pr[2])}

\* C10 witness: a selection that is not in timeline order, with next_dates
\* beyond the dates left, has paired its first date with its third
C10_Witness ==
    /\ ppc = "done"
    /\ Len(timeline_indices) = 3
    /\ timeline_indices[1] > timeline_indices[2]
    /\ next_dates = 2
    /\ PairsBetween(0, 2) # {}

-----------------------------------------------------------------------------
(* Properties of a Scene and its sequential run (Spec) *)

\* the timeline of the scene, as load_scene builds it
scene_timeline == group_files_by_date(img_dt, [i \in 1..Len(img_dt) |-> i])

\* the timeline position (0-based) of the date of image fname
DatePos(fname) ==
    CHOOSE k \in 0..(Len(scene_timeline) - 1) :
        fname \in Range(scene_timeline[k + 1].fnames)

\* the date being processed while set_ba_input_data runs in the sequential loop
current_t_idx == selected_timeline_indices[idx + 1]

\* C3: a call of check_adjusted_dates with t_idx never turns the adjusted
\* flag of a timeline entry at a position >= t_idx to true, whatever files
\* rpcs_adj holds: a flag turns true only in the step that calls it, and
\* only at a position before t_idx.
C3_NoFlagAtOrAfterCurrentDate ==
    [][\A x \in 1..Min2(Len(timeline), Len(timeline')) :
          (~timeline[x].adjusted /\ timeline'[x].adjusted) =>
              /\ pc = "seq_input"
              /\ x - 1 < current_t_idx]_vars

\* C3 witness: check_adjusted_dates has just flagged an earlier entry and left
\* unflagged an entry at or after t_idx whose adjusted files are on disk
C3_Witness ==
    /\ pc = "seq_ba"
    /\ args.n_dates > 0
    /\ \E x \in 1..Len(timeline) :
          /\ x - 1 >= current_t_idx
          /\ ~timeline[x].adjusted
          /\ timeline[x].id \in timeline_adj_ids(img_dt, ba_dir, rpcs_adj, tif_ids)
    /\ \E x \in 1..Len(timeline) :
          /\ x - 1 < current_t_idx
          /\ timeline[x].adjusted

\* C4 as stated: in every call of the optimization core made by a sequential
\* run, every anchor image belongs to a timeline entry strictly before the
\* date being processed.
C4_AnchorsFromPast ==
    args.ba_method = "ba_sequential" =>
        \A c \in 1..Len(calls) :
            \A x \in 1..Len(calls[c].images_adj) :
                DatePos(calls[c].images_adj[x].fname) < calls[c].t_indices[1]

\* the adjusted model files a call of the optimization core persisted
SavedBy(c) ==
    {get_id(calls[c].images_new[x].fname) : x \in 1..Len(calls[c].images_new)}

\* C5 as stated: after a sequential run over all dates was killed, the run
\* started again leaves the adjusted models the first run persisted as they
\* were, and calls the optimization core for none of the dates the first run
\* already adjusted.
C5_ResumeOnlyLaterDates ==
    (/\ args.ba_method = "ba_sequential"
     /\ args.timeline_indices = None
     /\ Len(stops) >= 1
     /\ stops[1] = "killed"
     /\ pc \notin {"new", "error_index", "error_config"}) =>
        \A c1 \in 1..Len(calls) :
            calls[c1].run = 1 =>
                /\ \A c2 \in 1..Len(calls) :
                      calls[c2].run = 2 => calls[c2].t_indices # calls[c1].t_indices
                /\ \A st \in SavedBy(c1) :
                      rpcs_adj[st] = AdjModel(st[1], c1)

\* C6 as stated: in every call of the optimization core, of every strategy,
\* the list of anchor images followed by new images holds no image twice.
C6_NoDuplicateImages ==
    \A c \in 1..Len(calls) :
        \A x, y \in 1..Len(calls[c].images) :
            x # y => calls[c].images[x].fname # calls[c].images[y].fname

\* C7 as stated: when ba_method is none of the three strategies the process
\* ends before any file system operation: the output directory is not
\* created, no initial model is written, nothing is removed.
C7_InvalidMethodBeforeIo ==
    pc = "exited" => io = {}

\* C8 as stated, for the initial stage: once load_scene has saved the initial
\* models, load_rpcs_from_dir finds for every image the file saved for it and
\* returns the saved model.
C8_InitRoundTrip ==
    pc \in {"loaded", "dispatch", "seq_input", "seq_ba", "seq_after", "once_ba",
            "done", "exited"} =>
        \A fn \in 1..Len(img_dt) :
            rpcs_init[rpc_basename(fn)] = InitModel(fn)

-----------------------------------------------------------------------------
(* Properties of the strategies (Spec) *)

\* the selection of the run: every date when the configuration names none
RunSelection ==
    IF args.timeline_indices = None
    THEN [x \in 1..Len(scene_timeline) |-> x - 1]
    ELSE args.timeline_indices

\* the images of the entries sel of the scene's timeline, in the order of sel
SelectedFnames(sel) ==
    Concat([x \in 1..Len(sel) |-> scene_timeline[sel[x] + 1].fnames])

\* the image file names of a list of images
FnamesOf(images) == [x \in 1..Len(images) |-> images[x].fname]

\* the calls of the optimization core made by process r
CallsOfRun(r) == {c \in 1..Len(calls) : calls[c].run = r}

C12_AscendingOneDatePerCall ==
    args.ba_method = "ba_sequential" =>
        /\ \A c \in 1..Len(calls) :
              /\ Len(calls[c].t_indices) = 1
              /\ FnamesOf(calls[c].images_new)
                     = scene_timeline[calls[c].t_indices[1] + 1].fnames
        /\ \A c1, c2 \in 1..Len(calls) :
              (c1 < c2 /\ calls[c1].run = calls[c2].run)
                  => calls[c1].t_indices[1] < calls[c2].t_indices[1]
        /\ pc = "done" => Cardinality(CallsOfRun(run)) = Len(RunSelection)

-----------------------------------------------------------------------------
(* Properties of the returned timeline (SpecCluster) *)

\* the timestamps of the members of entry k of the returned timeline
MemberTimes(k) == {datetimes[f] : f \in Range(g_timeline[k].fnames)}

\* C13: the timeline returned by group_files_by_date has its entries in
\* strictly ascending datetime order, no two entries share an id, the id is
\* the formatted datetime, and the datetime of an entry is the timestamp of
\* its earliest member.
C13_TimelineOrderAndKeys ==
    gpc = "done" =>
        /\ \A j, k \in 1..Len(g_timeline) :
              j < k => /\ g_timeline[j].datetime < g_timeline[k].datetime
                       /\ g_timeline[j].id # g_timeline[k].id
        /\ \A k \in 1..Len(g_timeline) :
              /\ g_timeline[k].id = Strftime(g_timeline[k].datetime)
              /\ g_timeline[k].datetime \in MemberTimes(k)
              /\ \A t \in MemberTimes(k) : g_timeline[k].datetime <= t

\* C13 witness: an input given out of order ends as two entries, one of them
\* with members at different times
C13_Witness ==
    /\ gpc = "done"
    /\ Len(datetimes) = 3
    /\ datetimes[1] > datetimes[2]
    /\ Len(g_timeline) = 2
    /\ \E k \in 1..Len(g_timeline) : Cardinality(MemberTimes(k)) = 2

-----------------------------------------------------------------------------
(* Properties of the error paths (Spec) *)

\* set_ba_input_data is about to run for a date one of whose images has no
\* initial model file under the name load_rpcs_from_dir looks for
NewModelMissing ==
    /\ pc = "seq_input"
    /\ \E fn \in Range(timeline[current_t_idx + 1].fnames) :
          rpcs_init[rpc_basename(fn)] = NoFile

\* C15: in a sequential run, when a camera model file needed for the input of
\* date i is absent, the process ends in an error without calling the
\* optimization core for date i or any later date, and the files of
\* rpcs_adj, those persisted for earlier dates included, stay as they are.
C15_MissingModelAborts ==
    [][/\ NewModelMissing =>
              /\ pc' \in {"error_missing", "killed"}
              /\ UNCHANGED <<calls, diskVars>>
       /\ (pc = "seq_input" /\ pc' = "error_missing") =>
              UNCHANGED <<calls, diskVars>>
       /\ pc = "error_missing" =>
              /\ pc' = "new"
              /\ run' = run + 1
              /\ UNCHANGED <<calls, diskVars>>
       /\ \A c \in 1..Len(calls) :
              \A x \in 1..Len(calls[c].images) : calls[c].images[x].rpc # NoFile]_vars

\* C15 witness: the input of a later date of a sequential run could not be
\* assembled; the process has stopped with the calls of the earlier dates
\* only, and the adjusted models those calls persisted are on disk
C15_Witness ==
    /\ args.ba_method = "ba_sequential"
    /\ pc = "error_missing"
    /\ idx >= 1
    /\ Cardinality(CallsOfRun(run)) = idx
    /\ \A c \in CallsOfRun(run) :
          \A st \in SavedBy(c) : rpcs_adj[st] = AdjModel(st[1], c)

-----------------------------------------------------------------------------
(* Properties of the global strategy (Spec) *)

\* the number of images of each entry of the scene's timeline
SceneSizes == [x \in 1..Len(scene_timeline) |-> Len(scene_timeline[x].fnames)]

FaultyConfig ==
    ~args.geotiff_dir_ok \/ ~args.rpc_dir_ok \/ ~args.correction_params_ok

\* C17: with a correction parameter that is none of R, T, K, COMMON_K, or
\* without the image directory or the camera model directory, the
\* construction of the Scene raises before the output directory is created
\* and before any camera model is read or written.
C17_ConfigErrorNoWork ==
    [][FaultyConfig =>
          /\ pc \in {"new", "error_config"}
          /\ io = {}
          /\ pc = "new" => pc' = "error_config"
          /\ UNCHANGED <<diskVars, io, calls>>]_vars

\* C17 witness: the construction has raised on a correction parameter, and
\* there is no output directory
C17_Witness ==
    /\ ~args.correction_params_ok
    /\ pc = "error_config"
    /\ io = {}
    /\ ~dst_dir

\* C18 as stated: with no image at all the timeline is empty and the loading
\* of the scene completes without raising an error.
C18_EmptySceneLoads ==
    (Len(img_dt) = 0 /\ ~FaultyConfig) =>
        /\ pc # "error_index"
        /\ timeline = <<>>

-----------------------------------------------------------------------------
(* Properties of the anchors and the reference camera (Spec) *)

\* call c is the first call of the optimization core of its process
FirstOfRun(c) == \A b \in 1..(c - 1) : calls[b].run # calls[c].run

\* C19 as stated: in a sequential run the call for the first processed date
\* has no anchor image, and with n_dates = 0 no call has one, whatever
\* adjusted models are on disk and whether or not reset is requested.
C19_FirstDateNoAnchors ==
    args.ba_method = "ba_sequential" =>
        \A c \in 1..Len(calls) :
            (FirstOfRun(c) \/ args.n_dates = 0) =>
                calls[c].n_adj = 0 /\ calls[c].images_adj = <<>>

\* C19, amended: with n_dates = 0 no call of a sequential run has an anchor
\* image; the call for the first processed date has none when reset is
\* requested, whatever adjusted models were on disk; without reset its
\* anchors, if any, are images of entries before the date processed.
C19_FirstDateAnchorsUnlessReset ==
    args.ba_method = "ba_sequential" =>
        \A c \in 1..Len(calls) :
            /\ calls[c].n_adj = Len(calls[c].images_adj)
            /\ args.n_dates = 0 =>
                  calls[c].n_adj = 0 /\ calls[c].images_adj = <<>>
            /\ (FirstOfRun(c) /\ args.reset) =>
                  calls[c].n_adj = 0 /\ calls[c].images_adj = <<>>
            /\ FirstOfRun(c) =>
                  \A x \in 1..Len(calls[c].images_adj) :
                      DatePos(calls[c].images_adj[x].fname) < calls[c].t_indices[1]

\* C19 witness: reset removed a directory of adjusted models, and the call
\* for the first processed date, not the first of the timeline, has no anchor
C19_Witness ==
    /\ args.ba_method = "ba_sequential"
    /\ args.reset
    /\ args.n_dates > 0
    /\ tif_ids # {}
    /\ "rmtree_ba_dir" \in io
    /\ Len(calls) = 1
    /\ calls[1].t_indices[1] >= 1
    /\ calls[1].n_adj = 0

\* C20: in a sequential run with n_dates > 0 the call for the first processed
\* date uses fix_ref_cam as configured and every later call of the run uses
\* fix_ref_cam = false; with n_dates = 0 every call uses it as configured.
C20_FixRefCamFirstDateOnly ==
    args.ba_method = "ba_sequential" =>
        \A c \in 1..Len(calls) :
            calls[c].fix_ref_cam =
                IF args.n_dates = 0 \/ FirstOfRun(c)
                THEN args.fix_ref_cam
                ELSE FALSE

\* C20 witness: fix_ref_cam is configured, and the second call of a run with
\* n_dates > 0 was made without it after a first call with it
C20_Witness ==
    /\ args.ba_method = "ba_sequential"
    /\ args.fix_ref_cam
    /\ args.n_dates > 0
    /\ Len(calls) >= 2
    /\ calls[1].run = calls[2].run
    /\ calls[1].fix_ref_cam
    /\ ~calls[2].fix_ref_cam

-----------------------------------------------------------------------------
(* Properties of the input of a call and of a reset (Spec) *)

\* the timeline positions (0-based) of the entries flagged adjusted
AdjustedDates == {k \in 0..(Len(timeline) - 1) : timeline[k + 1].adjusted}

\* the timeline positions (0-based) of the dates of the anchor images
AnchorDates == {DatePos(images_adj[x].fname) : x \in 1..Len(images_adj)}

\* C21 as stated: when the sequential strategy has set the input for date t
\* with previous_dates = N >= 1, the anchors are the images of
\* min(N, number of flagged entries) timeline entries, all of them flagged
\* adjusted and none farther from t by index than a flagged entry left out.
C21_ClosestAdjustedAnchors ==
    (pc = "seq_ba" /\ args.n_dates >= 1) =>
        /\ AnchorDates \subseteq AdjustedDates
        /\ Cardinality(AnchorDates) = Min2(args.n_dates, Cardinality(AdjustedDates))
        /\ \A a \in AnchorDates : \A b \in AdjustedDates \ AnchorDates :
              Abs(a - current_t_idx) <= Abs(b - current_t_idx)
        /\ \A a \in AnchorDates :
              Range(timeline[a + 1].fnames) \subseteq Range(FnamesOf(images_adj))

\* C22: the step that runs reset_ba_params (reset = true) leaves every
\* timeline entry with adjusted = false and the strategy's output directory
\* gone with every adjusted model in it, and changes nothing else of the
\* timeline (number, order and other fields of the entries) nor any file of
\* rpcs_init.
C22_ResetFrame ==
    [][(pc = "loaded" /\ pc' = "dispatch" /\ args.reset) =>
          /\ \A x \in 1..Len(timeline') : ~timeline'[x].adjusted
          /\ ~ba_dir'
          /\ \A st \in Stems : rpcs_adj'[st] = NoFile
          /\ Len(timeline') = Len(timeline)
          /\ \A x \in 1..Len(timeline) :
                [timeline'[x] EXCEPT !.adjusted = timeline[x].adjusted] = timeline[x]
          /\ rpcs_init' = rpcs_init
          /\ dst_dir' = dst_dir]_vars

\* C22 witness: reset_ba_params has just removed a strategy directory that
\* held adjusted models, on a timeline of two dates or more whose initial
\* models are in rpcs_init
C22_Witness ==
    /\ pc = "dispatch"
    /\ args.reset
    /\ "rmtree_ba_dir" \in io
    /\ ~ba_dir
    /\ Len(timeline) >= 2
    /\ \A x \in 1..Len(timeline) : ~timeline[x].adjusted
    /\ \A fn \in 1..Len(img_dt) :
          /\ rpcs_init[init_rpc_fname(fn)] = InitModel(fn)
          /\ rpcs_init[rpc_basename(fn)] # NoFile

-----------------------------------------------------------------------------
(* Properties of the clusters (SpecCluster) *)

\* the places <<entry, position>> of the returned timeline that hold image i
PlacesOf(i) ==
    {kj \in (1..Len(g_timeline)) \X (1..Len(datetimes)) :
        /\ kj[2] <= Len(g_timeline[kj[1]].fnames)
        /\ g_timeline[kj[1]].fnames[kj[2]] = i}

\* C23: the returned timeline is a partition of the input: every input image
\* is at exactly one place of exactly one entry, every entry has
\* n_images = len(fnames) >= 1, the n_images sum to the number of input
\* images, and the images of an entry are in ascending acquisition-time
\* order.
C23_ClusterPartition ==
    gpc = "done" =>
        /\ \A i \in 1..Len(datetimes) : Cardinality(PlacesOf(i)) = 1
        /\ \A k \in 1..Len(g_timeline) :
              /\ g_timeline[k].n_images = Len(g_timeline[k].fnames)
              /\ g_timeline[k].n_images >= 1
              /\ Range(g_timeline[k].fnames) \subseteq 1..Len(datetimes)
              /\ \A x, y \in 1..Len(g_timeline[k].fnames) :
                    x < y => datetimes[g_timeline[k].fnames[x]]
                                 <= datetimes[g_timeline[k].fnames[y]]
        /\ SumSeq([k \in 1..Len(g_timeline) |-> g_timeline[k].n_images])
               = Len(datetimes)

\* C23 witness: three images given latest first end as an entry of two
\* images followed by an entry of one
C23_Witness ==
    /\ gpc = "done"
    /\ Len(datetimes) = 3
    /\ datetimes[1] > datetimes[2]
    /\ datetimes[2] > datetimes[3]
    /\ Len(g_timeline) = 2
    /\ g_timeline[1].fnames = <<3, 2>>
    /\ g_timeline[2].fnames = <<1>>

-----------------------------------------------------------------------------
(* Properties of the input of every call (Spec) *)

\* previous_dates of the calls of set_ba_input_data of the strategy
PreviousDates == IF args.ba_method = "ba_sequential" THEN args.n_dates ELSE 0

\* C24: at every call of the optimization core images_new holds exactly the
\* images of the dates passed to the call, images_adj holds exactly the
\* images of the anchor dates of the call (at most previous_dates distinct
\* timeline entries, whole), n_adj is the number of images of images_adj and
\* ba_data["images"] is images_adj followed by images_new: no image of an
\* earlier call remains.
C24_InputRebuiltPerCall ==
    \A c \in 1..Len(calls) :
        /\ FnamesOf(calls[c].images_new) = SelectedFnames(calls[c].t_indices)
        /\ calls[c].n_adj = Len(calls[c].images_adj)
        /\ calls[c].images = calls[c].images_adj \o calls[c].images_new
        /\ \E A \in SeqsUpTo(0..(Len(scene_timeline) - 1), PreviousDates) :
              /\ \A x, y \in 1..Len(A) : x # y => A[x] # A[y]
              /\ FnamesOf(calls[c].images_adj) = SelectedFnames(A)

\* C24 witness: a process has made two calls, the first with new images and
\* the second with anchors and with other new images
C24_Witness ==
    /\ Len(calls) >= 2
    /\ calls[1].run = calls[2].run
    /\ calls[1].images_new # <<>>
    /\ calls[2].n_adj > 0
    /\ calls[2].t_indices # calls[1].t_indices

-----------------------------------------------------------------------------
(* Properties of the representatives (SpecCluster) *)

\* the representatives within the margin of the image being placed
NearRepresentatives ==
    {x \in 1..Len(dates_already_seen) :
        WithinMargin(dates_already_seen[x], sorted_datetimes_g[im_idx])}

\* C25: throughout group_files_by_date any two representatives are at least
\* 30 minutes apart; at most one representative is within 30 minutes of the
\* image being placed, and it is the one of the most recently created date,
\* the only date the image can join; every member of a date, and of an entry
\* of the returned timeline, has its timestamp in
\* [representative, representative + 30 minutes).
C25_RepresentativesApart ==
    /\ \A x, y \in 1..Len(dates_already_seen) :
          x # y => dt_diff_in_secs(dates_already_seen[x], dates_already_seen[y])
                       >= MarginSecs
    /\ (gpc = "loop" /\ im_idx <= Len(datetimes)) =>
          /\ Cardinality(NearRepresentatives) <= 1
          /\ NearRepresentatives \subseteq {Len(dates_already_seen)}
          /\ JoinPos(dates_already_seen, sorted_datetimes_g[im_idx])
                 \in {0, Len(dates_already_seen)}
    /\ Len(d) = Len(dates_already_seen)
    /\ \A k \in 1..Len(d) :
          \A j \in 1..Len(d[k].val) :
              /\ dates_already_seen[k] <= sorted_datetimes_g[d[k].val[j]]
              /\ sorted_datetimes_g[d[k].val[j]] < dates_already_seen[k] + MarginSecs
    /\ gpc = "done" =>
          \A k \in 1..Len(g_timeline) :
              \A t \in MemberTimes(k) :
                  /\ g_timeline[k].datetime <= t
                  /\ t < g_timeline[k].datetime + MarginSecs

\* C25 witness: the third image is about to join the second of two dates,
\* 30 minutes or more after the first representative
C25_Witness ==
    /\ gpc = "loop"
    /\ im_idx = 3
    /\ Len(datetimes) = 3
    /\ Len(dates_already_seen) = 2
    /\ NearRepresentatives = {2}
    /\ sorted_datetimes_g[im_idx] > dates_already_seen[2]
    /\ JoinPos(dates_already_seen, sorted_datetimes_g[im_idx]) = 2

-----------------------------------------------------------------------------
(* Properties of the adjusted flags and the files on disk (Spec) *)

\* rpcs_adj holds an adjusted model file of image fname, under the name
\* check_adjusted_dates looks for or under the name load_rpcs_from_dir reads
HasAdjFile(fname) ==
    \/ rpcs_adj[get_id(fname)] # NoFile
    \/ rpcs_adj[rpc_basename(fname)] # NoFile

\* C26 as stated: every timeline entry check_adjusted_dates has flagged
\* adjusted has an adjusted model file on disk for each of its images, also
\* when rpcs_adj holds files for only some of the images of a date.
C26_FlaggedDatesHaveModels ==
    \A x \in 1..Len(timeline) :
        timeline[x].adjusted =>
            \A fn \in Range(timeline[x].fnames) : HasAdjFile(fn)

====
